---- MODULE Spec2Model ----
(***************************************************************************)
(* A model of pickpack's PickPacker (src/src/pickpack/__init__.py): the    *)
(* option tree, the indexing pass, the cursor and the cascading            *)
(* multiselect list all_selected.                                          *)
(*                                                                         *)
(* Nodes are the identities 1..N in creation order; a node's index is the  *)
(* attribute stamped by add_indices, a different number in general.        *)
(***************************************************************************)
EXTENDS Integers, Sequences, FiniteSets, TLC

\* Largest number of nodes of an option tree.
MaxNodes == 5

\* Largest number of nodes of an option tree in the model of run_loop.
MaxLoopNodes == 4

\* Largest min_selection_count a caller passes.
MaxMinSelectionCount == 2

\* Largest number of nodes of an option tree in the model of a whole session.
MaxSessionNodes == 3

\* Largest number of rows of the screen below its first row.
MaxRows == 2

\* Largest number of custom handlers a caller registers.
MaxHandlers == 1

\* Python's None, where a Node (an identity >= 1) is expected.
None == 0

VARIABLES
    children,       \* node -> sequence of its child nodes (Node.children)
    nodeIndex,      \* node -> the index attribute stamped by add_indices
    multiselect,    \* PickPacker.multiselect
    index,          \* PickPacker.index, the cursor
    all_selected,   \* PickPacker.all_selected, a Python list of indices
    status,         \* "running", or the exception that ended the session
    prev,           \* the operation last applied and the state it started from
    prev2,          \* the same for the operation before it
    output_format,  \* PickPacker.output_format, an OutputMode
    output_leaves_only,                     \* PickPacker.output_leaves_only
    singleselect_output_include_children,   \* the field of that name
    min_selection_count,                    \* PickPacker.min_selection_count
    key,            \* the key run_loop read last (its local c)
    returned,       \* what run_loop returned
    title,          \* PickPacker.title
    scroll_top,     \* PickPacker.scroll_top
    max_rows,       \* the rows draw had to draw on (its local max_rows)
    pc,             \* where the session is: "start" (run_loop not called yet), "draw", "getch" or "returned"
    custom_handlers,    \* PickPacker.custom_handlers, as (key, func) entries
    handled,        \* the custom handler the last key invoked, or "none"
    call            \* the arguments of a constructor call not yet validated

\* the fields the cursor and selection methods never write, and run_loop's own
loopVars == <<output_format, output_leaves_only, singleselect_output_include_children,
              min_selection_count, key, returned>>

\* the title, the screen, the position in the session, the custom handlers, and
\* the pending constructor call
sessionVars == <<title, scroll_top, max_rows, pc, custom_handlers, handled, call>>

vars == <<children, nodeIndex, multiselect, index, all_selected, status, prev, prev2,
          loopVars, sessionVars>>

------------------------------------------------------------------------------
(* Python list helpers *)

\* x in lst
InList(lst, x) == \E i \in 1..Len(lst) : lst[i] = x

\* the set of a list's elements
ListSet(lst) == { lst[i] : i \in 1..Len(lst) }

\* lst.remove(x): drops the first occurrence of x (the callers test x in lst,
\* or catch the ValueError, before relying on it)
ListRemove(lst, x) ==
    LET i == CHOOSE j \in 1..Len(lst) : lst[j] = x /\ \A k \in 1..(j - 1) : lst[k] # x
    IN  SubSeq(lst, 1, i - 1) \o SubSeq(lst, i + 1, Len(lst))

\* number of occurrences of x in lst
Occurrences(lst, x) == Cardinality({ i \in 1..Len(lst) : lst[i] = x })

------------------------------------------------------------------------------
(* The tree: anytree Node, with children lists and parent back-references *)

RECURSIVE SortedSeq(_)
SortedSeq(S) ==
    IF S = {} THEN <<>>
    ELSE LET m == CHOOSE x \in S : \A y \in S : x <= y
         IN  <<m>> \o SortedSeq(S \ {m})

\* The trees of n nodes: node 1 is the root, every other node was attached to
\* a node created before it, children in the order they were attached.
ParentMaps(n) ==
    { p \in [1..n -> 0..(n - 1)] : p[1] = None /\ \A i \in 2..n : p[i] >= 1 /\ p[i] < i }

ChildrenOf(p) == [m \in DOMAIN p |-> SortedSeq({ c \in DOMAIN p : p[c] = m })]

TreeInputs == UNION { { ChildrenOf(p) : p \in ParentMaps(n) } : n \in 1..MaxNodes }

LoopTreeInputs == UNION { { ChildrenOf(p) : p \in ParentMaps(n) } : n \in 1..MaxLoopNodes }

\* A list of k options through options_map_func (a leaf Node per option):
\* under a synthetic root "Select all" when k > 1, the node alone when k = 1.
ListTree(k) ==
    IF k > 1 THEN [m \in 1..(k + 1) |-> IF m = 1 THEN [i \in 1..k |-> i + 1] ELSE <<>>]
    ELSE [m \in 1..1 |-> <<>>]

Nodes == DOMAIN children

root == 1

\* node.parent
Parent(node) ==
    IF \E m \in Nodes : InList(children[m], node)
    THEN CHOOSE m \in Nodes : InList(children[m], node)
    ELSE None

\* iteration order of anytree's RenderTree / PreOrderIter over a children map
RECURSIVE PreOrderOf(_, _)
RECURSIVE PreOrderSeq(_, _, _)
PreOrderOf(ch, node) == <<node>> \o PreOrderSeq(ch, ch[node], 1)
PreOrderSeq(ch, kids, i) ==
    IF i > Len(kids) THEN <<>>
    ELSE PreOrderOf(ch, kids[i]) \o PreOrderSeq(ch, kids, i + 1)

\* add_indices numbering the nodes in the order they were created
add_indices_by_creation(ch) == [n \in DOMAIN ch |-> n - 1]

\* add_indices: enumerate the rows of the RenderTree and stamp row.node.index
add_indices(ch) ==
    LET rows == PreOrderOf(ch, root)
    IN  [n \in DOMAIN ch |-> (CHOOSE i \in 1..Len(rows) : rows[i] = n) - 1]

\* count_nodes(node)
RECURSIVE count_nodes(_)
RECURSIVE count_nodes_acc(_, _, _)
count_nodes(node) == count_nodes_acc(children[node], 1, 0) + 1
count_nodes_acc(kids, i, acc) ==
    IF i > Len(kids) THEN acc
    ELSE count_nodes_acc(kids, i + 1, acc + count_nodes(kids[i]))

\* find_by_index(self.options.node, idx): the node carrying idx, else None
find_by_index(idx) ==
    IF \E n \in Nodes : nodeIndex[n] = idx
    THEN CHOOSE n \in Nodes : nodeIndex[n] = idx
    ELSE None

\* the strict descendants and the strict ancestors of a node
RECURSIVE Descendants(_)
Descendants(node) ==
    LET kids == ListSet(children[node])
    IN  kids \cup UNION { Descendants(c) : c \in kids }

Ancestors(node) == { a \in Nodes : node \in Descendants(a) }

N == count_nodes(root)

------------------------------------------------------------------------------
(* Construction: PickPacker.__post_init__ *)

\* What a caller passes as options: a RenderTree, or a list of optnr items.
Inputs ==
    { [isList |-> FALSE, optnr |-> Len(ch), tree |-> ch] : ch \in TreeInputs }
    \cup { [isList |-> TRUE, optnr |-> k, tree |-> ListTree(k)] : k \in 1..(MaxNodes - 1) }

\* the default_index values a caller may pass, in range and out of it
DefaultIndexes == (0 - 1)..MaxNodes

\* the default_index test of __post_init__: TRUE when it raises ValueError
default_index_rejected(isList, optnr, default_index) ==
    \/ (isList /\ optnr = 1 /\ default_index >= 1)
    \/ default_index > optnr
    \/ (default_index >= optnr /\ ~isList)

NoOp == [op |-> "init", index |-> 0, all_selected |-> <<>>]

\* the members of OutputMode
OutputModes == {"nodeindex", "nameindex", "nodeonly", "nameonly"}

\* the leaves-only test of __post_init__ without its include-descendants part
leaves_only_rejected_single(ms, incl, leaves) == ~ms /\ leaves

\* the leaves-only test of __post_init__: TRUE when it raises ValueError
leaves_only_rejected(ms, incl, leaves) == ~ms /\ ~incl /\ leaves

\* the min_selection_count test of __post_init__ that lets every count pass
min_selection_count_rejected_never(ms, optnr, minsel) == FALSE

\* the min_selection_count test of __post_init__: TRUE when it raises ValueError
min_selection_count_rejected(ms, optnr, minsel) == ms /\ minsel > optnr

\* run_loop has returned nothing yet
NotReturned == [kind |-> "none", items |-> <<>>]

\* The state a successful __post_init__ leaves, the fields at these values.
Constructed(inp, default_index, ms, fmt, leaves, incl, minsel) ==
    /\ ~leaves_only_rejected(ms, incl, leaves)
    /\ ~default_index_rejected(inp.isList, inp.optnr, default_index)
    /\ ~min_selection_count_rejected(ms, inp.optnr, minsel)
    /\ children = inp.tree
    /\ nodeIndex = add_indices(inp.tree)
    /\ multiselect = ms
    /\ index = default_index
    /\ all_selected = <<>>
    /\ status = "running"
    /\ prev = NoOp
    /\ prev2 = NoOp
    /\ output_format = fmt
    /\ output_leaves_only = leaves
    /\ singleselect_output_include_children = incl
    /\ min_selection_count = minsel
    /\ key = "none"
    /\ returned = NotReturned

\* title=None
NoTitle == [isNone |-> TRUE, chars |-> <<>>]

\* no constructor call is pending
NoCall == [pending |-> FALSE, isList |-> FALSE, optnr |-> 0, tree |-> <<>>,
           default_index |-> 0]

\* A picker whose session was not started: no title, scroll_top at its default,
\* no handler registered.
Unstarted ==
    /\ title = NoTitle
    /\ scroll_top = 0
    /\ max_rows = 0
    /\ pc = "start"
    /\ custom_handlers = {}
    /\ handled = "none"
    /\ call = NoCall

\* Pickers with the output fields at their defaults (the cursor and selection
\* methods read none of them).
Init ==
    /\ \E inp \in Inputs, default_index \in DefaultIndexes, ms \in BOOLEAN :
           Constructed(inp, default_index, ms, "nodeindex", FALSE, FALSE, 0)
    /\ Unstarted

\* What the caller passed as options.
LoopInputs ==
    { [isList |-> FALSE, optnr |-> Len(ch), tree |-> ch] : ch \in LoopTreeInputs }
    \cup { [isList |-> TRUE, optnr |-> k, tree |-> ListTree(k)] : k \in 1..(MaxLoopNodes - 1) }

\* A session without title or handlers on a screen with a row for every node:
\* draw finds current_line in 1..max_rows (or 0 = scroll_top) and leaves
\* scroll_top at 0, so that an iteration of run_loop is its key alone.
TallScreen ==
    /\ title = NoTitle
    /\ scroll_top = 0
    /\ max_rows = Len(children)
    /\ pc = "getch"
    /\ custom_handlers = {}
    /\ handled = "none"
    /\ call = NoCall

\* Pickers with every field a caller can set that the session reads.
InitLoop ==
    /\ \E inp \in LoopInputs, default_index \in (0 - 1)..MaxLoopNodes, ms \in BOOLEAN,
          fmt \in OutputModes, leaves \in BOOLEAN, incl \in BOOLEAN,
          minsel \in 0..MaxMinSelectionCount :
           Constructed(inp, default_index, ms, fmt, leaves, incl, minsel)
    /\ TallScreen

------------------------------------------------------------------------------
(* Cursor movement *)

Record(op) == [op |-> op, index |-> index, all_selected |-> all_selected]

\* move_up wrapping one past the last node
move_up_index_past_end(i) == IF i - 1 < 0 THEN count_nodes(root) ELSE i - 1

\* the cursor after move_up
move_up_index(i) == IF i - 1 < 0 THEN count_nodes(root) - 1 ELSE i - 1

\* move_down wrapping one step late
move_down_index_late(i) == IF i + 1 > count_nodes(root) THEN 0 ELSE i + 1

\* the cursor after move_down
move_down_index(i) == IF i + 1 >= count_nodes(root) THEN 0 ELSE i + 1

move_up ==
    /\ status = "running"
    /\ index' = move_up_index(index)
    /\ prev' = Record("move_up")
    /\ prev2' = prev
    /\ UNCHANGED <<children, nodeIndex, multiselect, all_selected, status, loopVars,
                   sessionVars>>

move_down ==
    /\ status = "running"
    /\ index' = move_down_index(index)
    /\ prev' = Record("move_down")
    /\ prev2' = prev
    /\ UNCHANGED <<children, nodeIndex, multiselect, all_selected, status, loopVars,
                   sessionVars>>

------------------------------------------------------------------------------
(* Cascading multiselect *)

\* check_children that stops at the direct children
RECURSIVE check_direct_loop(_, _, _)
check_direct_loop(sel, kids, i) ==
    IF i > Len(kids) THEN sel
    ELSE check_direct_loop(IF ~InList(sel, nodeIndex[kids[i]])
                           THEN Append(sel, nodeIndex[kids[i]]) ELSE sel, kids, i + 1)
check_children_direct(sel, node) == check_direct_loop(sel, children[node], 1)

\* check_children: append every descendant not yet in the list, pre-order
RECURSIVE check_children(_, _)
RECURSIVE check_children_loop(_, _, _)
check_children(sel, node) == check_children_loop(sel, children[node], 1)
check_children_loop(sel, kids, i) ==
    IF i > Len(kids) THEN sel
    ELSE LET child == kids[i]
             s1 == IF ~InList(sel, nodeIndex[child])
                   THEN Append(sel, nodeIndex[child]) ELSE sel
             s2 == IF children[child] # <<>> THEN check_children(s1, child) ELSE s1
         IN  check_children_loop(s2, kids, i + 1)

\* all_checked satisfied by one checked child
all_checked_any(sel, p) ==
    \E i \in 1..Len(children[p]) : InList(sel, nodeIndex[children[p][i]])

\* the product all_checked of check_ancestors: every child of p is in the list
all_checked(sel, p) ==
    \A i \in 1..Len(children[p]) : InList(sel, nodeIndex[children[p][i]])

\* check_ancestors that looks at the direct parent only
check_ancestors_once(sel, node) ==
    IF node # None /\ Parent(node) # None /\ all_checked(sel, Parent(node))
    THEN Append(sel, nodeIndex[Parent(node)])
    ELSE sel

\* check_ancestors: append the parent while all of its children are in the list
RECURSIVE check_ancestors(_, _)
check_ancestors(sel, node) ==
    IF node # None /\ Parent(node) # None
    THEN IF all_checked(sel, Parent(node))
         THEN check_ancestors(Append(sel, nodeIndex[Parent(node)]), Parent(node))
         ELSE sel
    ELSE sel

\* uncheck_children that stops at the direct children
RECURSIVE uncheck_direct_loop(_, _, _)
uncheck_direct_loop(sel, kids, i) ==
    IF i > Len(kids) THEN sel
    ELSE uncheck_direct_loop(IF InList(sel, nodeIndex[kids[i]])
                             THEN ListRemove(sel, nodeIndex[kids[i]]) ELSE sel, kids, i + 1)
uncheck_children_direct(sel, node) == uncheck_direct_loop(sel, children[node], 1)

\* uncheck_children that walks from the root of the tree
uncheck_children_from_root(sel, node) == uncheck_direct_loop(sel, children[root], 1)

\* uncheck_children: remove every descendant that is in the list
RECURSIVE uncheck_children(_, _)
RECURSIVE uncheck_children_loop(_, _, _)
uncheck_children(sel, node) == uncheck_children_loop(sel, children[node], 1)
uncheck_children_loop(sel, kids, i) ==
    IF i > Len(kids) THEN sel
    ELSE LET child == kids[i]
             s1 == IF InList(sel, nodeIndex[child])
                   THEN ListRemove(sel, nodeIndex[child]) ELSE sel
             s2 == IF children[child] # <<>> THEN uncheck_children(s1, child) ELSE s1
         IN  uncheck_children_loop(s2, kids, i + 1)

\* uncheck_ancestors that removes the direct parent only
uncheck_ancestors_once(sel, node) ==
    IF node # None /\ Parent(node) # None /\ InList(sel, nodeIndex[Parent(node)])
    THEN ListRemove(sel, nodeIndex[Parent(node)])
    ELSE sel

\* uncheck_ancestors that leaves the ancestors alone
uncheck_ancestors_never(sel, node) == sel

\* uncheck_ancestors: remove the parent, going up until one is not in the list
RECURSIVE uncheck_ancestors(_, _)
uncheck_ancestors(sel, node) ==
    IF node # None /\ Parent(node) # None
    THEN IF InList(sel, nodeIndex[Parent(node)])
         THEN uncheck_ancestors(ListRemove(sel, nodeIndex[Parent(node)]), Parent(node))
         ELSE sel
    ELSE sel

\* add_relatives_index, on the list that already holds the cursor's index
add_relatives_index(sel, node) == check_ancestors(check_children(sel, node), node)

\* remove_relatives_index, on the list the cursor's index was removed from
remove_relatives_index(sel, node) == uncheck_ancestors(uncheck_children(sel, node), node)

\* the list after mark_index with the cursor on a node (multiselect on)
marked(sel, idx) ==
    IF InList(sel, idx)
    THEN remove_relatives_index(ListRemove(sel, idx), find_by_index(idx))
    ELSE add_relatives_index(Append(sel, idx), find_by_index(idx))

\* mark_index toggling in single-select mode too
mark_index_applies_always == TRUE

\* the test mark_index starts with
mark_index_applies == multiselect

\* What mark_index does to the picker. With the cursor on no node,
\* find_by_index returns None and the walk over None.children raises
\* AttributeError after the list was changed.
mark_index_body ==
    /\ IF mark_index_applies
       THEN IF find_by_index(index) = None
            THEN /\ all_selected' = IF InList(all_selected, index)
                                    THEN ListRemove(all_selected, index)
                                    ELSE Append(all_selected, index)
                 /\ status' = "AttributeError"
            ELSE /\ all_selected' = marked(all_selected, index)
                 /\ UNCHANGED status
       ELSE UNCHANGED <<all_selected, status>>
    /\ UNCHANGED <<children, nodeIndex, multiselect, index>>

\* a call of mark_index
mark_index ==
    /\ status = "running"
    /\ prev' = Record("mark_index")
    /\ prev2' = prev
    /\ mark_index_body
    /\ UNCHANGED <<loopVars, sessionVars>>

Next == move_up \/ move_down \/ mark_index

Spec == Init /\ [][Next]_vars

------------------------------------------------------------------------------
(* Output shaping: get_selected *)

\* node.name; names are not unique among the nodes
name(node) ==
    IF node = root THEN "Select all" ELSE IF node % 2 = 0 THEN "option1" ELSE "option2"

\* An entry of the output. A node entry carries the node, a name entry the
\* name; hasIndex tells a (value, index) tuple from a bare value.
NoName == ""
with_index(nameonly, node, idx) ==
    [node |-> IF nameonly THEN None ELSE node,
     name |-> IF nameonly THEN name(node) ELSE NoName,
     hasIndex |-> TRUE, index |-> idx]
no_index(nameonly, node) ==
    [node |-> IF nameonly THEN None ELSE node,
     name |-> IF nameonly THEN name(node) ELSE NoName,
     hasIndex |-> FALSE, index |-> 0]

\* What a call gives: a list of entries, one entry, or the AttributeError of
\* an attribute read on None.
AsList(items) == [kind |-> "list", items |-> items]
AsSingle(item) == [kind |-> "single", items |-> <<item>>]
Raised == [kind |-> "AttributeError", items |-> <<>>]

\* get_leaves_only that also lists the inner nodes
RECURSIVE get_leaves_only_inner(_, _)
RECURSIVE get_leaves_only_inner_loop(_, _, _)
get_leaves_only_inner(node, leaves) ==
    get_leaves_only_inner_loop(children[node], 1,
                               IF ~InList(leaves, node) THEN Append(leaves, node) ELSE leaves)
get_leaves_only_inner_loop(kids, i, leaves) ==
    IF i > Len(kids) THEN leaves
    ELSE get_leaves_only_inner_loop(kids, i + 1, get_leaves_only_inner(kids[i], leaves))

\* get_leaves_only(node, leaves)
RECURSIVE get_leaves_only(_, _)
RECURSIVE get_leaves_only_loop(_, _, _)
get_leaves_only(node, leaves) ==
    IF children[node] # <<>>
    THEN get_leaves_only_loop(children[node], 1, leaves)
    ELSE IF ~InList(leaves, node) THEN Append(leaves, node) ELSE leaves
get_leaves_only_loop(kids, i, leaves) ==
    IF i > Len(kids) THEN leaves
    ELSE get_leaves_only_loop(kids, i + 1, get_leaves_only(kids[i], leaves))

\* get_descendants that leaves the node itself out
RECURSIVE get_descendants_strict_loop(_, _, _)
get_descendants_strict_loop(kids, i, leaves) ==
    IF i > Len(kids) THEN leaves
    ELSE get_descendants_strict_loop(kids, i + 1,
             get_descendants_strict_loop(children[kids[i]], 1, Append(leaves, kids[i])))
get_descendants_strict(node, leaves) == get_descendants_strict_loop(children[node], 1, leaves)

\* get_descendants(node, leaves)
RECURSIVE get_descendants(_, _)
RECURSIVE get_descendants_loop(_, _, _)
get_descendants(node, leaves) == get_descendants_loop(children[node], 1, Append(leaves, node))
get_descendants_loop(kids, i, leaves) ==
    IF i > Len(kids) THEN leaves
    ELSE get_descendants_loop(kids, i + 1, get_descendants(kids[i], leaves))

\* the entries (x, x.index) of a list of nodes
tuples_of(nameonly, nodes) ==
    [k \in 1..Len(nodes) |-> with_index(nameonly, nodes[k], nodeIndex[nodes[k]])]

\* the entries x or x.name of a list of nodes
values_of(nameonly, nodes) == [k \in 1..Len(nodes) |-> no_index(nameonly, nodes[k])]

\* some index of all_selected is the index of no node
stale_selected == \E i \in 1..Len(all_selected) : find_by_index(all_selected[i]) = None

\* the multiselect leaves-only loop of get_selected_withindex
RECURSIVE leaves_withindex(_, _, _)
leaves_withindex(nameonly, i, return_tuples) ==
    IF i > Len(all_selected) THEN return_tuples
    ELSE LET node == find_by_index(all_selected[i])
             found == tuples_of(nameonly, get_leaves_only(node, <<>>))
         IN  leaves_withindex(nameonly, i + 1,
                 return_tuples \o SelectSeq(found, LAMBDA e : ~InList(return_tuples, e)))

\* the multiselect leaves-only loop of get_selected_noindex: it extends the
\* list with the leaves themselves, whatever the output format
RECURSIVE leaves_noindex(_, _)
leaves_noindex(i, return_tuples) ==
    IF i > Len(all_selected) THEN return_tuples
    ELSE LET node == find_by_index(all_selected[i])
             found == values_of(FALSE, get_leaves_only(node, <<>>))
         IN  leaves_noindex(i + 1,
                 return_tuples \o SelectSeq(found, LAMBDA e : ~InList(return_tuples, e)))

\* get_selected_withindex that pairs every entry with the cursor
get_selected_withindex_cursor(fmt) ==
    LET nameonly == fmt # "nodeindex"
        node == find_by_index(index)
    IN  IF node = None THEN Raised
        ELSE IF multiselect
        THEN AsList([k \in 1..Len(all_selected) |->
                        with_index(nameonly, find_by_index(all_selected[k]), index)])
        ELSE IF singleselect_output_include_children
        THEN AsList([k \in 1..Len(get_descendants(node, <<>>)) |->
                        with_index(nameonly, get_descendants(node, <<>>)[k], index)])
        ELSE AsSingle(with_index(nameonly, node, index))

\* get_selected_withindex, with nameonly = bool(self.output_format)
get_selected_withindex(fmt) ==
    LET nameonly == fmt # "nodeindex"
        node == find_by_index(index)
    IN  IF multiselect
        THEN IF output_leaves_only
             THEN IF stale_selected THEN Raised
                  ELSE AsList(leaves_withindex(nameonly, 1, <<>>))
             ELSE IF nameonly /\ stale_selected THEN Raised
                  ELSE AsList([k \in 1..Len(all_selected) |->
                                  with_index(nameonly, find_by_index(all_selected[k]),
                                             all_selected[k])])
        ELSE IF singleselect_output_include_children
             THEN IF node = None THEN Raised
                  ELSE IF output_leaves_only
                       THEN AsList(tuples_of(nameonly, get_leaves_only(node, <<>>)))
                       ELSE AsList(tuples_of(nameonly, get_descendants(node, <<>>)))
             ELSE IF nameonly /\ node = None THEN Raised
                  ELSE AsSingle(with_index(nameonly, node, index))

\* get_selected_noindex, with nameonly = (self.output_format == nameonly)
get_selected_noindex(fmt) ==
    LET nameonly == fmt = "nameonly"
        node == find_by_index(index)
    IN  IF multiselect
        THEN IF output_leaves_only
             THEN IF stale_selected THEN Raised
                  ELSE AsList(leaves_noindex(1, <<>>))
             ELSE IF nameonly /\ stale_selected THEN Raised
                  ELSE AsList([k \in 1..Len(all_selected) |->
                                  no_index(nameonly, find_by_index(all_selected[k]))])
        ELSE IF output_leaves_only
             THEN IF node = None THEN Raised
                  ELSE AsList(values_of(nameonly, get_leaves_only(node, <<>>)))
             ELSE IF singleselect_output_include_children
                  THEN IF node = None THEN Raised
                       ELSE AsList(values_of(nameonly, get_descendants(node, <<>>)))
                  ELSE IF nameonly /\ node = None THEN Raised
                       ELSE AsSingle(no_index(nameonly, node))

\* get_selected without the dispatch on the output format
get_selected_in_withindex(fmt) == get_selected_withindex(fmt)

\* get_selected, were output_format fmt
get_selected_in(fmt) ==
    IF fmt = "nodeindex" \/ fmt = "nameindex"
    THEN get_selected_withindex(fmt)
    ELSE get_selected_noindex(fmt)

\* get_selected()
get_selected == get_selected_in(output_format)

------------------------------------------------------------------------------
(* The session: run_loop, one key at a time *)

\* a key of KEYS_UP
key_up ==
    /\ status = "running"
    /\ key' = "up"
    /\ index' = move_up_index(index)
    /\ UNCHANGED <<children, nodeIndex, multiselect, all_selected, status, prev, prev2,
                   output_format, output_leaves_only,
                   singleselect_output_include_children, min_selection_count, returned>>

\* a key of KEYS_DOWN
key_down ==
    /\ status = "running"
    /\ key' = "down"
    /\ index' = move_down_index(index)
    /\ UNCHANGED <<children, nodeIndex, multiselect, all_selected, status, prev, prev2,
                   output_format, output_leaves_only,
                   singleselect_output_include_children, min_selection_count, returned>>

\* enter answered whatever the selection count
enter_never_ignored == FALSE

\* the enter test of run_loop: TRUE when the key is ignored
enter_ignored == multiselect /\ Len(all_selected) < min_selection_count

\* a key of KEYS_ENTER: ignored below min_selection_count, else the session
\* ends with what get_selected() returns or raises
key_enter ==
    /\ status = "running"
    /\ key' = "enter"
    /\ IF enter_ignored
       THEN UNCHANGED <<status, returned>>
       ELSE IF get_selected.kind = "AttributeError"
            THEN status' = "AttributeError" /\ UNCHANGED returned
            ELSE status' = "done" /\ returned' = get_selected
    /\ UNCHANGED <<children, nodeIndex, multiselect, index, all_selected, prev, prev2,
                   output_format, output_leaves_only,
                   singleselect_output_include_children, min_selection_count>>

\* a key of KEYS_SELECT: mark_index in multiselect mode, nothing otherwise
key_select ==
    /\ status = "running"
    /\ key' = "select"
    /\ IF multiselect
       THEN mark_index_body
       ELSE UNCHANGED <<children, nodeIndex, multiselect, index, all_selected, status>>
    /\ UNCHANGED <<prev, prev2, output_format, output_leaves_only,
                   singleselect_output_include_children, min_selection_count, returned>>

NextLoop ==
    \/ key_up /\ UNCHANGED sessionVars
    \/ key_down /\ UNCHANGED sessionVars
    \/ key_enter /\ UNCHANGED sessionVars
    \/ key_select /\ UNCHANGED sessionVars

SpecLoop == InitLoop /\ [][NextLoop]_vars

------------------------------------------------------------------------------
(* The display: get_lines and draw *)

\* str.split('\n') on a string given as its characters
RECURSIVE split(_)
split(chars) ==
    IF \E i \in 1..Len(chars) : chars[i] = "\n"
    THEN LET i == CHOOSE j \in 1..Len(chars) :
                      chars[j] = "\n" /\ \A k \in 1..(j - 1) : chars[k] # "\n"
         IN  <<SubSeq(chars, 1, i - 1)>> \o split(SubSeq(chars, i + 1, Len(chars)))
    ELSE <<chars>>

\* A displayed line: a line of the title with its text, or the line of a node
\* with the indicator on it or not and the colour pair on it or not.
TitleLine(text) ==
    [kind |-> "title", text |-> text, indicator |-> FALSE, highlight |-> FALSE,
     node |-> None]
OptionLine(idx, node) ==
    [kind |-> "option", text |-> <<>>, indicator |-> (idx = index),
     highlight |-> (multiselect /\ InList(all_selected, idx)), node |-> node]

\* get_title_lines()
get_title_lines ==
    IF ~title.isNone /\ title.chars # <<>>
    THEN LET texts == split(title.chars) \o << <<>> >>
         IN  [k \in 1..Len(texts) |-> TitleLine(texts[k])]
    ELSE <<>>

\* get_option_lines counting the rows from 1
get_option_lines_from_one ==
    LET rows == PreOrderOf(children, root)
    IN  [k \in 1..Len(rows) |-> OptionLine(k, rows[k])]

\* get_option_lines(): a line per row of enumerate(self.options)
get_option_lines ==
    LET rows == PreOrderOf(children, root)
    IN  [k \in 1..Len(rows) |-> OptionLine(k - 1, rows[k])]

\* get_lines(): the lines and the current line
get_lines ==
    [lines |-> get_title_lines \o get_option_lines,
     current_line |-> index + Len(get_title_lines) + 1]

\* the scroll_top draw computes for a screen of rows rows
draw_scroll_top(current_line, top, rows) ==
    IF current_line <= top THEN 0
    ELSE IF current_line - top > rows THEN current_line - rows
    ELSE top

\* lines[self.scroll_top:self.scroll_top + max_rows]
lines_to_draw ==
    LET lines == get_lines.lines
        last == IF scroll_top + max_rows < Len(lines)
                THEN scroll_top + max_rows ELSE Len(lines)
    IN  SubSeq(lines, scroll_top + 1, last)

\* draw(screen), the screen max_rows + 1 rows high
draw ==
    /\ status = "running"
    /\ pc = "draw"
    /\ \E rows \in 1..MaxRows :
           /\ max_rows' = rows
           /\ scroll_top' = draw_scroll_top(get_lines.current_line, scroll_top, rows)
    /\ pc' = "getch"
    /\ UNCHANGED <<children, nodeIndex, multiselect, index, all_selected, status, prev,
                   prev2, loopVars, title, custom_handlers, handled, call>>

------------------------------------------------------------------------------
(* The session with its screen and its custom handlers *)

\* The keys getch returns: the four kinds run_loop knows, and another.
Keys == {"up", "down", "enter", "select", "left"}

\* The keys a caller registers a handler for.
HandlerKeys == {"up", "select", "left"}

\* The handlers a caller registers: go_back returns (None, -1); mark calls
\* picker.mark_index() and returns None.
Handlers == {"go_back", "mark"}

\* what go_back returns
GoBack ==
    [kind |-> "custom",
     items |-> <<[node |-> None, name |-> NoName, hasIndex |-> TRUE, index |-> 0 - 1]>>]

\* the titles a caller passes: None, "", "a" and "a\nb"
Titles ==
    {NoTitle, [isNone |-> FALSE, chars |-> <<>>], [isNone |-> FALSE, chars |-> <<"a">>],
     [isNone |-> FALSE, chars |-> <<"a", "\n", "b">>]}

\* What the caller passed as options.
SessionInputs == { inp \in LoopInputs : Len(inp.tree) <= MaxSessionNodes }

\* Constructed pickers with a title, before run_loop is called.
InitSession ==
    /\ \E inp \in SessionInputs, default_index \in (0 - 1)..MaxSessionNodes,
          ms \in BOOLEAN :
           Constructed(inp, default_index, ms, "nodeindex", FALSE, FALSE, 0)
    /\ title \in Titles
    /\ scroll_top = 0
    /\ max_rows = 0
    /\ pc = "start"
    /\ custom_handlers = {}
    /\ handled = "none"
    /\ call = NoCall

\* register_custom_handler(key, func)
register_custom_handler ==
    /\ status = "running"
    /\ pc = "start"
    /\ \E k \in HandlerKeys, f \in Handlers :
           LET entries == { e \in custom_handlers : e.key # k }
                              \cup {[key |-> k, func |-> f]}
           IN  /\ Cardinality(entries) <= MaxHandlers
               /\ custom_handlers' = entries
    /\ UNCHANGED <<children, nodeIndex, multiselect, index, all_selected, status, prev,
                   prev2, loopVars, title, scroll_top, max_rows, pc, handled, call>>

\* run_loop(screen) is called and the loop entered
run_loop ==
    /\ status = "running"
    /\ pc = "start"
    /\ pc' = "draw"
    /\ UNCHANGED <<children, nodeIndex, multiselect, index, all_selected, status, prev,
                   prev2, loopVars, title, scroll_top, max_rows, custom_handlers, handled,
                   call>>

\* c in self.custom_handlers
registered(c) == \E e \in custom_handlers : e.key = c

\* c is taken by a branch of run_loop above the custom handlers
builtin(c) == c \in {"up", "down", "enter"} \/ (c = "select" /\ multiselect)

\* the key getch returned after a draw is dispatched; run_loop draws again
\* unless it returned or raised
dispatched ==
    /\ pc = "getch"
    /\ pc' = IF status' = "running" THEN "draw" ELSE "returned"
    /\ UNCHANGED <<title, scroll_top, max_rows, custom_handlers, call>>

\* what a handler returns
NoneValue == [kind |-> "None", items |-> <<>>]
handler_returns(func) == IF func = "go_back" THEN GoBack ELSE NoneValue

\* a test of the handler's result that None passes
truthy_none(ret) == TRUE

\* the test of `if ret := ...`: None is falsy, a tuple of two is truthy
truthy(ret) == ret # NoneValue

\* a key with a custom handler, none of the branches above it taking the key:
\* the handler is called (mark calls mark_index), and run_loop returns what
\* it returns unless that is falsy
key_custom ==
    /\ status = "running"
    /\ \E e \in custom_handlers :
           /\ ~builtin(e.key)
           /\ key' = e.key
           /\ handled' = e.func
           /\ LET marks == e.func = "mark" /\ mark_index_applies
                  raises == marks /\ find_by_index(index) = None
                  ret == handler_returns(e.func)
              IN  /\ all_selected' =
                         IF ~marks THEN all_selected
                         ELSE IF ~raises THEN marked(all_selected, index)
                         ELSE IF InList(all_selected, index)
                         THEN ListRemove(all_selected, index)
                         ELSE Append(all_selected, index)
                  /\ IF raises THEN status' = "AttributeError" /\ UNCHANGED returned
                     ELSE IF truthy(ret) THEN status' = "done" /\ returned' = ret
                     ELSE UNCHANGED <<status, returned>>
    /\ UNCHANGED <<children, nodeIndex, multiselect, index, prev, prev2, output_format,
                   output_leaves_only, singleselect_output_include_children,
                   min_selection_count>>

\* a key no branch of run_loop takes
key_unbound ==
    /\ status = "running"
    /\ \E c \in Keys : ~builtin(c) /\ ~registered(c) /\ key' = c
    /\ UNCHANGED <<children, nodeIndex, multiselect, index, all_selected, status, prev,
                   prev2, output_format, output_leaves_only,
                   singleselect_output_include_children, min_selection_count, returned>>

NextSession ==
    \/ register_custom_handler
    \/ run_loop
    \/ draw
    \/ key_up /\ handled' = "none" /\ dispatched
    \/ key_down /\ handled' = "none" /\ dispatched
    \/ key_enter /\ handled' = "none" /\ dispatched
    \/ multiselect /\ key_select /\ handled' = "none" /\ dispatched
    \/ key_custom /\ dispatched
    \/ key_unbound /\ handled' = "none" /\ dispatched

SpecSession == InitSession /\ [][NextSession]_vars

------------------------------------------------------------------------------
(* The constructor call: the dataclass __init__, then __post_init__ *)

\* the ValueErrors of __post_init__
EmptyError == "ValueError: options should not be an empty list"
LeavesOnlyError == "ValueError: To output only leaves on singleselect mode"
DefaultIndexError == "ValueError: default_index should be less than the length of options"
MinSelectionError == "ValueError: min_selection_count is bigger than the available options"

\* What a caller passes as options, the empty list among it.
ConstructInputs ==
    LoopInputs \cup {[isList |-> TRUE, optnr |-> 0, tree |-> <<>>]}

\* The picker when the generated __init__ has assigned the arguments and the
\* defaults of the internal fields and __post_init__ is about to run; call
\* holds options and default_index until the tree is built and indexed.
InitNew ==
    /\ \E inp \in ConstructInputs, d \in (0 - 1)..MaxLoopNodes :
           call = [pending |-> TRUE, isList |-> inp.isList, optnr |-> inp.optnr,
                   tree |-> inp.tree, default_index |-> d]
    /\ multiselect \in BOOLEAN
    /\ output_leaves_only \in BOOLEAN
    /\ singleselect_output_include_children \in BOOLEAN
    /\ min_selection_count \in 0..MaxMinSelectionCount
    /\ output_format = "nodeindex"
    /\ children = <<>>
    /\ nodeIndex = <<>>
    /\ index = 0
    /\ all_selected = <<>>
    /\ status = "new"
    /\ prev = NoOp
    /\ prev2 = NoOp
    /\ key = "none"
    /\ returned = NotReturned
    /\ title = NoTitle
    /\ scroll_top = 0
    /\ max_rows = 0
    /\ pc = "start"
    /\ custom_handlers = {}
    /\ handled = "none"

\* the first test of __post_init__ that raises, "none" when none does
post_init_error ==
    IF call.optnr = 0 THEN EmptyError
    ELSE IF leaves_only_rejected(multiselect, singleselect_output_include_children,
                                 output_leaves_only)
    THEN LeavesOnlyError
    ELSE IF default_index_rejected(call.isList, call.optnr, call.default_index)
    THEN DefaultIndexError
    ELSE IF min_selection_count_rejected(multiselect, call.optnr, min_selection_count)
    THEN MinSelectionError
    ELSE "none"

\* __post_init__: it raises, or builds the tree, indexes it and puts the
\* cursor on default_index
post_init ==
    /\ status = "new"
    /\ IF post_init_error # "none"
       THEN /\ status' = post_init_error
            /\ UNCHANGED <<children, nodeIndex, index, call>>
       ELSE /\ status' = "running"
            /\ children' = call.tree
            /\ nodeIndex' = add_indices(call.tree)
            /\ index' = call.default_index
            /\ call' = NoCall
    /\ UNCHANGED <<multiselect, all_selected, prev, prev2, loopVars, title, scroll_top,
                   max_rows, pc, custom_handlers, handled>>

NextConstruct == post_init

SpecConstruct == InitNew /\ [][NextConstruct]_vars

------------------------------------------------------------------------------
(* Vocabulary of the properties *)

\* node n is selected in the list sel
Sel(sel, n) == InList(sel, nodeIndex[n])

\* the last operation was mark_index in multiselect mode with the cursor on a node
MarkedNode == prev.op = "mark_index" /\ multiselect /\ find_by_index(prev.index) # None

\* the node the last operation had the cursor on
X == find_by_index(prev.index)

\* the ancestors of n from its parent up to a, a included
UpTo(n, a) == { b \in Ancestors(n) : b = a \/ b \in Descendants(a) }

\* the last two operations were mark_index with the cursor on the same node
\* (in either mode)
MarkedTwice ==
    /\ prev.op = "mark_index" /\ find_by_index(prev.index) # None
    /\ prev2.op = "mark_index"
    /\ prev2.index = prev.index

------------------------------------------------------------------------------
(* C1..C10 *)

\* C1: in multiselect mode the selection is downward-closed: a node whose
\* index is in all_selected has the index of every descendant in it too.
DownwardClosed ==
    multiselect =>
        \A n \in Nodes : Sel(all_selected, n) =>
            \A d \in Descendants(n) : Sel(all_selected, d)

\* a selected inner node with a selected grandchild, below an unselected root
DownwardClosedWitness ==
    /\ multiselect /\ prev.op = "mark_index"
    /\ ~Sel(all_selected, root)
    /\ \E n \in Nodes : \E d \in Descendants(n) :
           Parent(d) # n /\ Sel(all_selected, n) /\ Sel(all_selected, d)

\* C2: in multiselect mode a node with at least one child is selected
\* exactly when all of its direct children are.
ParentIffAllChildren ==
    multiselect =>
        \A n \in Nodes : children[n] # <<>> =>
            (Sel(all_selected, n) <=> \A c \in ListSet(children[n]) : Sel(all_selected, c))

\* a node with two children that the upward walk from a child selected,
\* while its own parent stays unselected
ParentIffAllChildrenWitness ==
    /\ MarkedNode
    /\ \E n \in Nodes :
           /\ Len(children[n]) >= 2 /\ X \in ListSet(children[n])
           /\ ~Sel(prev.all_selected, n) /\ Sel(all_selected, n)
           /\ Parent(n) # None /\ ~Sel(all_selected, Parent(n))

\* C3 as stated: mark_index twice in succession on any node X leaves the set
\* of selected indices as it was before the first call.
TwiceRestoresAlways ==
    MarkedTwice => ListSet(all_selected) = ListSet(prev2.all_selected)

\* C3 as amended: mark_index twice in succession on a node X restores the set
\* of selected indices when X was selected before the first call or no
\* descendant of X was; when X was unselected and had a selected descendant,
\* the two calls leave X and all of its descendants unselected.
TwiceRestores ==
    MarkedTwice =>
        IF Sel(prev2.all_selected, X)
           \/ \A d \in Descendants(X) : ~Sel(prev2.all_selected, d)
        THEN ListSet(all_selected) = ListSet(prev2.all_selected)
        ELSE /\ ListSet(all_selected) # ListSet(prev2.all_selected)
             /\ \A d \in Descendants(X) \cup {X} : ~Sel(all_selected, d)

\* two calls on a selected node with a selected parent: the first emptied
\* the parent, the second brought it back
TwiceRestoresWitness ==
    /\ MarkedTwice
    /\ Parent(X) # None
    /\ Sel(prev2.all_selected, X) /\ Sel(prev2.all_selected, Parent(X))
    /\ ~Sel(prev.all_selected, Parent(X))
    /\ Sel(all_selected, Parent(X))
    /\ \E n \in Nodes : ~Sel(all_selected, n)

\* C4: in multiselect mode one mark_index with the cursor on the root makes
\* all_selected hold all N indices when the root was not selected, and makes
\* it empty when the root was selected.
RootToggle ==
    (MarkedNode /\ prev.index = 0) =>
        IF InList(prev.all_selected, 0)
        THEN all_selected = <<>>
        ELSE ListSet(all_selected) = 0..(N - 1)

\* the root of a tree with grandchildren was toggled off
RootToggleWitness ==
    /\ MarkedNode /\ prev.index = 0
    /\ InList(prev.all_selected, 0)
    /\ \E d \in Descendants(root) : Parent(d) # root
    /\ all_selected = <<>>

\* C5: in multiselect mode mark_index with the cursor on an unselected node X
\* ends with X and every descendant of X in all_selected.
SelectsSubtree ==
    (MarkedNode /\ ~InList(prev.all_selected, prev.index)) =>
        \A d \in Descendants(X) \cup {X} : Sel(all_selected, d)

\* an unselected inner node below the root, with a grandchild, was selected
\* while one of its descendants already was
SelectsSubtreeWitness ==
    /\ MarkedNode /\ ~InList(prev.all_selected, prev.index)
    /\ X # root
    /\ \E d \in Descendants(X) : Sel(prev.all_selected, d)
    /\ \E d \in Descendants(X) : ~Sel(prev.all_selected, d) /\ Sel(all_selected, d)

\* every child of ancestor b of X is selected when the upward walk looks at b:
\* the child the walk came from, and the other children as they already were
FullAt(b) ==
    \A c \in ListSet(children[b]) :
        c = X \/ c \in Ancestors(X) \/ Sel(prev.all_selected, c)

\* C6: when mark_index selects X, the upward walk adds an ancestor A exactly
\* when all direct children of A and of every ancestor between X and A are
\* selected at that point; it stops at the first ancestor with an unselected
\* direct child, and adds no ancestor at or above that one.
UpwardWalkAdds ==
    (MarkedNode /\ ~InList(prev.all_selected, prev.index)) =>
        \A a \in Ancestors(X) :
            /\ ~Sel(prev.all_selected, a)
            /\ Occurrences(all_selected, nodeIndex[a])
                   = (IF \A b \in UpTo(X, a) : FullAt(b) THEN 1 ELSE 0)

\* the walk added the parent of X and stopped at the grandparent, which has
\* another, unselected child
UpwardWalkAddsWitness ==
    /\ MarkedNode /\ ~InList(prev.all_selected, prev.index)
    /\ Parent(X) # None /\ Parent(Parent(X)) # None
    /\ Sel(all_selected, Parent(X)) /\ ~Sel(prev.all_selected, Parent(X))
    /\ Len(children[Parent(X)]) >= 2
    /\ ~Sel(all_selected, Parent(Parent(X)))

\* C7: in multiselect mode mark_index with the cursor on a selected node X
\* removes X and every descendant of X, then removes the ancestors of X going
\* up, stops at the first ancestor that was not selected, and changes nothing
\* above it.
UnselectCascade ==
    (MarkedNode /\ InList(prev.all_selected, prev.index)) =>
        /\ \A d \in Descendants(X) \cup {X} : ~Sel(all_selected, d)
        /\ \A a \in Ancestors(X) :
               IF \A b \in UpTo(X, a) : Sel(prev.all_selected, b)
               THEN ~Sel(all_selected, a)
               ELSE Sel(all_selected, a) <=> Sel(prev.all_selected, a)

\* a selected node was unselected together with two selected ancestors
UnselectCascadeWitness ==
    /\ MarkedNode /\ InList(prev.all_selected, prev.index)
    /\ Parent(X) # None /\ Parent(Parent(X)) # None
    /\ Sel(prev.all_selected, Parent(Parent(X)))
    /\ ~Sel(all_selected, Parent(Parent(X)))
    /\ all_selected # <<>>

\* C8: all_selected never holds the same index twice and only holds indices
\* in 0..N-1.
NoDuplicateValidIndices ==
    /\ \A i \in ListSet(all_selected) : Occurrences(all_selected, i) = 1
    /\ ListSet(all_selected) \subseteq 0..(N - 1)

\* C9: from a cursor in 0..N-1, move_down then move_up, and move_up then
\* move_down, return the cursor to where it was.
MovesAreInverse ==
    (/\ prev2.index \in 0..(N - 1)
     /\ \/ prev2.op = "move_down" /\ prev.op = "move_up"
        \/ prev2.op = "move_up" /\ prev.op = "move_down")
    => index = prev2.index

\* the pair went over a wrap position of a tree of several nodes
MovesAreInverseWitness ==
    /\ N >= 3
    /\ \/ prev2.op = "move_down" /\ prev.op = "move_up" /\ prev2.index = N - 1
                                 /\ prev.index = 0 /\ index = N - 1
       \/ prev2.op = "move_up" /\ prev.op = "move_down" /\ prev2.index = 0
                                 /\ prev.index = N - 1 /\ index = 0

\* C10: move_up sets the cursor to cursor-1, or to N-1 when the cursor was 0;
\* move_down sets it to cursor+1, or to 0 when the cursor was N-1.
MoveSteps ==
    /\ prev.op = "move_up" =>
           index = (IF prev.index = 0 THEN N - 1 ELSE prev.index - 1)
    /\ prev.op = "move_down" =>
           index = (IF prev.index = N - 1 THEN 0 ELSE prev.index + 1)

------------------------------------------------------------------------------
(* C11..C20 *)

\* the entry the output format fmt shows for node n
Shaped(fmt, n) ==
    [node |-> IF fmt \in {"nodeindex", "nodeonly"} THEN n ELSE None,
     name |-> IF fmt \in {"nameindex", "nameonly"} THEN name(n) ELSE NoName,
     hasIndex |-> fmt \in {"nodeindex", "nameindex"},
     index |-> IF fmt \in {"nodeindex", "nameindex"} THEN nodeIndex[n] ELSE 0]

\* the entries fmt shows for a sequence of nodes
ShapedAll(fmt, nodes) == [k \in 1..Len(nodes) |-> Shaped(fmt, nodes[k])]

\* entry e stands for node n: by its index, by the node, or by its name
Denotes(e, n) ==
    /\ e.hasIndex => e.index = nodeIndex[n]
    /\ e.node # None => e.node = n
    /\ e.node = None => e.name = name(n)

\* the node at the cursor, when the cursor is on one
AtCursor == CHOOSE n \in Nodes : nodeIndex[n] = index
OnNode == \E n \in Nodes : nodeIndex[n] = index

\* the node carrying index i
NodeOf(i) == CHOOSE n \in Nodes : nodeIndex[n] = i

\* the leaves at or below n, in pre-order
LeavesOf(n) == SelectSeq(PreOrderOf(children, n), LAMBDA m : children[m] = <<>>)

\* a sequence without its repetitions, the first occurrence kept
RECURSIVE FirstSeen(_)
FirstSeen(seq) ==
    IF seq = <<>> THEN <<>>
    ELSE LET front == FirstSeen(SubSeq(seq, 1, Len(seq) - 1))
             last == seq[Len(seq)]
         IN  IF InList(front, last) THEN front ELSE Append(front, last)

\* the leaves of the nodes of a list of indices, list order then pre-order
RECURSIVE LeavesOfAll(_)
LeavesOfAll(sel) ==
    IF sel = <<>> THEN <<>> ELSE LeavesOf(NodeOf(Head(sel))) \o LeavesOfAll(Tail(sel))

\* the ancestors of n, nearest first
RECURSIVE AncestorsUp(_)
AncestorsUp(n) ==
    IF Parent(n) = None THEN <<>> ELSE <<Parent(n)>> \o AncestorsUp(Parent(n))

\* the indices of a sequence of nodes
IndicesOf(nodes) == [k \in 1..Len(nodes) |-> nodeIndex[nodes[k]]]

\* C11: from a cursor in 0..N-1, a key of the session (up, down, select,
\* enter with its get_selected) leaves the cursor in 0..N-1 and on a node, and
\* raises nothing.
CursorStaysInRange ==
    [][(index \in 0..(N - 1)) =>
          (/\ index' \in 0..(N - 1)
           /\ \E n \in Nodes : nodeIndex[n] = index'
           /\ status' # "AttributeError")]_vars

\* a session that selected something, moved to the last node and returned
CursorStaysInRangeWitness ==
    /\ status = "done" /\ key = "enter"
    /\ multiselect /\ all_selected # <<>>
    /\ N >= 3 /\ index = N - 1

\* C12: every constructed picker starts with its cursor in 0..N-1 (a
\* default_index outside [0, N) is rejected).
ConstructedCursorInRange ==
    prev.op = "init" => index \in 0..(N - 1)

\* C13: add_indices gives the N nodes the indices 0..N-1 one-to-one in
\* pre-order (the root 0, the first child its parent's index plus one, a later
\* child following the whole subtree of the child before it), and running it
\* again gives the same assignment.
IndicesArePreOrder ==
    /\ \A n, m \in Nodes : nodeIndex[n] = nodeIndex[m] => n = m
    /\ { nodeIndex[n] : n \in Nodes } = 0..(N - 1)
    /\ nodeIndex[root] = 0
    /\ \A n \in Nodes : \A i \in 1..Len(children[n]) :
           nodeIndex[children[n][i]] =
               IF i = 1 THEN nodeIndex[n] + 1
               ELSE nodeIndex[children[n][i - 1]]
                        + Cardinality(Descendants(children[n][i - 1])) + 1
    /\ add_indices(children) = nodeIndex

\* a tree whose indices differ from the order its nodes were created in,
\* with a node of two children below the root
IndicesArePreOrderWitness ==
    /\ \E n \in Nodes : nodeIndex[n] # n - 1
    /\ \E n \in Nodes : n # root /\ Len(children[n]) >= 2

\* C14: in multiselect mode without leaves-only get_selected gives one entry
\* per index of all_selected, in list order; mark_index on an unselected node
\* appends the node, then its newly added descendants in pre-order, then the
\* newly completed ancestors nearest first. On parent(0) -> {1, 2} toggling 0
\* from the empty list gives [0, 1, 2], and toggling a child next leaves the
\* other child alone.
OutputInInsertionOrder ==
    /\ (multiselect /\ status = "running") =>
           \A fmt \in OutputModes :
               get_selected_in(fmt) =
                   AsList([k \in 1..Len(all_selected) |-> Shaped(fmt, NodeOf(all_selected[k]))])
    /\ (MarkedNode /\ ~InList(prev.all_selected, prev.index)) =>
           all_selected =
               prev.all_selected \o <<prev.index>>
               \o SelectSeq(IndicesOf(Tail(PreOrderOf(children, X))),
                            LAMBDA i : ~InList(prev.all_selected, i))
               \o SelectSeq(IndicesOf(AncestorsUp(X)), LAMBDA i : InList(all_selected, i))
    /\ (/\ children = <<<<2, 3>>, <<>>, <<>>>>
        /\ MarkedNode /\ prev.index = 0 /\ prev.all_selected = <<>>) =>
           all_selected = <<0, 1, 2>>
    /\ (/\ children = <<<<2, 3>>, <<>>, <<>>>>
        /\ MarkedNode /\ prev.index \in {1, 2} /\ prev.all_selected = <<0, 1, 2>>) =>
           all_selected = <<3 - prev.index>>

\* the scenario: with 0, 1 and 2 selected, down from the root and child 1 toggled
OutputInInsertionOrderWitness ==
    /\ children = <<<<2, 3>>, <<>>, <<>>>>
    /\ MarkedNode /\ prev.index = 1 /\ prev.all_selected = <<0, 1, 2>>
    /\ prev2.op = "move_down" /\ prev2.index = 0 /\ prev2.all_selected = <<0, 1, 2>>
    /\ all_selected = <<2>>
    /\ get_selected_in("nameindex").items = <<Shaped("nameindex", 3)>>

\* the result res of nodeindex seen through output format fmt
ToName(e) == [e EXCEPT !.node = None, !.name = name(e.node)]
DropIndex(e) == [e EXCEPT !.hasIndex = FALSE, !.index = 0]
Projected(fmt, res) ==
    [kind |-> res.kind,
     items |-> [k \in 1..Len(res.items) |->
                   IF fmt = "nameindex" THEN ToName(res.items[k])
                   ELSE IF fmt = "nodeonly" THEN DropIndex(res.items[k])
                   ELSE IF fmt = "nameonly" THEN DropIndex(ToName(res.items[k]))
                   ELSE res.items[k]]]

\* C15: in every configuration and state (the cursor on a node) the nameindex,
\* nodeonly and nameonly results are the nodeindex result with the node
\* replaced by its name, the index dropped, or both.
OutputModesAreProjections ==
    (status # "AttributeError" /\ OnNode) =>
        \A fmt \in OutputModes :
            get_selected_in(fmt) = Projected(fmt, get_selected_in("nodeindex"))

\* C16: in multiselect mode with leaves-only get_selected gives, for each
\* index of all_selected in list order, the leaves at or below its node, each
\* leaf once where it first appears.
MultiselectLeavesOnly ==
    (multiselect /\ output_leaves_only /\ status # "AttributeError") =>
        LET expected == FirstSeen(LeavesOfAll(all_selected))
            result == get_selected
        IN  /\ result.kind = "list"
            /\ Len(result.items) = Len(expected)
            /\ \A k \in 1..Len(expected) : Denotes(result.items[k], expected[k])

\* returned: fewer leaves than selected indices, the first selected not the root
MultiselectLeavesOnlyWitness ==
    /\ status = "done" /\ multiselect /\ output_leaves_only
    /\ returned = get_selected
    /\ Len(returned.items) >= 2
    /\ Len(all_selected) > Len(returned.items)
    /\ all_selected[1] # 0

\* C17: in single-select mode with include-descendants on and leaves-only off
\* get_selected gives the node at the cursor and then its descendants in
\* pre-order, each with its own index in the index modes; for three options
\* under the synthetic root and the cursor on the root, the indices 0, 1, 2, 3.
SingleWithDescendants ==
    (/\ ~multiselect /\ singleselect_output_include_children /\ ~output_leaves_only
     /\ OnNode /\ status # "AttributeError") =>
        LET result == get_selected
        IN  /\ result = AsList(ShapedAll(output_format, PreOrderOf(children, AtCursor)))
            /\ (children = ListTree(3) /\ index = 0 /\ result.items[1].hasIndex) =>
                   [k \in 1..Len(result.items) |-> result.items[k].index] = <<0, 1, 2, 3>>

\* returned for the three options under the synthetic root, with names and indices
SingleWithDescendantsWitness ==
    /\ status = "done" /\ ~multiselect
    /\ singleselect_output_include_children /\ ~output_leaves_only
    /\ children = ListTree(3) /\ index = 0 /\ output_format = "nameindex"
    /\ returned = get_selected
    /\ Len(returned.items) = 4 /\ returned.items[4].index = 3

SingleLeavesOnly ==
    (/\ ~multiselect /\ singleselect_output_include_children /\ output_leaves_only
     /\ OnNode /\ status # "AttributeError") =>
        LET result == get_selected
        IN  /\ result = AsList(ShapedAll(output_format, LeavesOf(AtCursor)))
            /\ \A k \in 1..Len(result.items) :
                   \E n \in Nodes : children[n] = <<>> /\ Denotes(result.items[k], n)
            /\ children[AtCursor] = <<>> =>
                   result.items = <<Shaped(output_format, AtCursor)>>

\* returned: the two leaves of an inner node below the root
SingleLeavesOnlyWitness ==
    /\ status = "done" /\ ~multiselect
    /\ singleselect_output_include_children /\ output_leaves_only
    /\ OnNode /\ AtCursor # root /\ Len(children[AtCursor]) = 2
    /\ returned = get_selected
    /\ Len(returned.items) = 2

\* C20: enter in multiselect mode with fewer than min_selection_count
\* selected indices does not end the session and changes neither the cursor
\* nor all_selected; every other enter ends the session with what
\* get_selected() gives for the state as it is.
EnterEndsOrIsIgnored ==
    [][(key' = "enter" /\ status = "running") =>
          (/\ index' = index
           /\ all_selected' = all_selected
           /\ IF multiselect /\ Len(all_selected) < min_selection_count
              THEN status' = "running" /\ returned' = returned
              ELSE IF get_selected.kind = "AttributeError"
                   THEN status' = "AttributeError" /\ returned' = returned
                   ELSE status' = "done" /\ returned' = get_selected)]_vars

\* enter was ignored with one index selected
EnterEndsOrIsIgnoredWitness ==
    /\ key = "enter" /\ status = "running"
    /\ multiselect /\ Len(all_selected) = 1 /\ min_selection_count = 2

------------------------------------------------------------------------------
(* C21..C30 *)

\* run_loop has just read a key in a running session
KeyRead == pc = "getch" /\ status = "running"

\* what the handler func does when run_loop calls it with the picker
HandlerRan(func) ==
    /\ handled' = func
    /\ index' = index
    /\ IF func = "go_back"
       THEN /\ status' = "done"
            /\ returned' = GoBack
            /\ pc' = "returned"
            /\ all_selected' = all_selected
       ELSE /\ returned' = returned
            /\ status' # "done"
            /\ status' = "running" => pc' = "draw"
            /\ OnNode => status' = "running"
            /\ (multiselect /\ OnNode) =>
                   (InList(all_selected', index) <=> ~InList(all_selected, index))
            /\ ~multiselect => all_selected' = all_selected

\* C21 as stated: a key with a registered custom handler invokes the handler;
\* a non-empty result ends the session with that result, an empty result lets
\* the loop continue.
HandlerAlwaysInvoked ==
    [][(KeyRead /\ registered(key')) =>
          (\E e \in custom_handlers : e.key = key' /\ HandlerRan(e.func))]_vars

\* C21 as amended: a key with a registered custom handler that is no up, down
\* or enter key, nor a select key in multiselect mode, invokes the handler; a
\* non-empty result ends the session with that result, an empty result lets
\* the loop continue. An up, down or enter key, and a select key in
\* multiselect mode, invokes no handler.
HandlerInvokedUnlessBuiltin ==
    [][KeyRead =>
          IF key' \in {"up", "down", "enter"} \/ (key' = "select" /\ multiselect)
          THEN handled' = "none"
          ELSE registered(key') =>
                   (\E e \in custom_handlers : e.key = key' /\ HandlerRan(e.func))]_vars

\* the select key of a single-select session ended it with go_back's result
HandlerInvokedUnlessBuiltinWitness ==
    /\ key = "select" /\ ~multiselect
    /\ handled = "go_back"
    /\ status = "done" /\ returned = GoBack

\* C22: __post_init__ raises the leaves-only ValueError exactly when
\* leaves-only is asked for with multiselect off and include-descendants off
\* (no call with that combination is accepted); leaves-only with multiselect
\* on, or with include-descendants on, is accepted.
LeavesOnlyRule ==
    [][(status = "new") =>
          LET combination == /\ output_leaves_only
                             /\ ~multiselect
                             /\ ~singleselect_output_include_children
          IN  /\ combination => (status' # "running" /\ status' # "new")
              /\ (status' = LeavesOnlyError) <=> (combination /\ call.optnr > 0)
              /\ (/\ ~combination
                  /\ call.optnr > 0 /\ call.default_index = 0 /\ min_selection_count = 0)
                     => status' = "running"]_vars

\* a single-select picker with leaves-only and include-descendants was built
LeavesOnlyRuleWitness ==
    /\ status = "running" /\ ~call.pending
    /\ output_leaves_only /\ ~multiselect /\ singleselect_output_include_children
    /\ Len(children) >= 3

\* C23: after a draw on max_rows >= 1 rows the cursor line is in the window:
\* scroll_top < current_line <= scroll_top + max_rows, with
\* current_line = cursor + number of title lines + 1.
CursorLineDrawn ==
    (KeyRead /\ OnNode /\ max_rows >= 1) =>
        LET current_line == index + Len(get_title_lines) + 1
        IN  scroll_top < current_line /\ current_line <= scroll_top + max_rows

\* the number of lines the title gives: none for None and for "", else one
\* per newline, plus two
TitleLineCount ==
    IF title.isNone \/ title.chars = <<>> THEN 0
    ELSE Cardinality({ i \in 1..Len(title.chars) : title.chars[i] = "\n" }) + 2

\* the texts joined with newlines
RECURSIVE Joined(_)
Joined(texts) ==
    IF Len(texts) = 1 THEN texts[1]
    ELSE texts[1] \o <<"\n">> \o Joined(Tail(texts))

\* C24: get_lines gives the title lines (the title split on newlines and one
\* blank line, none without a title), then one line per node in index order;
\* the indicator is on exactly the line of the node whose index is the cursor,
\* a line is highlighted exactly when multiselect is on and its index is in
\* all_selected, and the current line is cursor + number of title lines + 1.
GetLinesShape ==
    status # "new" =>
        LET result == get_lines
            lines == result.lines
            t == TitleLineCount
        IN  /\ Len(lines) = t + N
            /\ \A k \in 1..t : lines[k].kind = "title"
            /\ t > 0 =>
                   /\ lines[t].text = <<>>
                   /\ Joined([k \in 1..(t - 1) |-> lines[k].text]) = title.chars
                   /\ \A k \in 1..(t - 1) : \A j \in 1..Len(lines[k].text) :
                          lines[k].text[j] # "\n"
            /\ \A i \in 0..(N - 1) :
                   /\ lines[t + 1 + i].kind = "option"
                   /\ nodeIndex[lines[t + 1 + i].node] = i
                   /\ lines[t + 1 + i].indicator <=> (i = index)
                   /\ lines[t + 1 + i].highlight <=> (multiselect /\ InList(all_selected, i))
            /\ result.current_line = index + t + 1

\* a title of two lines, the cursor on the last of three nodes, another node
\* highlighted
GetLinesShapeWitness ==
    /\ pc = "getch" /\ status = "running" /\ multiselect
    /\ TitleLineCount = 3 /\ N = 3 /\ index = 2
    /\ get_lines.current_line = 6
    /\ get_lines.lines[6].indicator /\ ~get_lines.lines[6].highlight
    /\ get_lines.lines[5].highlight /\ ~get_lines.lines[5].indicator

\* the list after mark_index removed the cursor's index and uncheck_children
\* the descendants, before uncheck_ancestors walks up
BeforeWalk == uncheck_children(ListRemove(prev.all_selected, prev.index), X)

\* the last operation was mark_index unselecting a node
UnmarkedNode == MarkedNode /\ InList(prev.all_selected, prev.index)

\* C25: when the upward walk of an unselect stops at an ancestor that is not
\* selected, no ancestor above it is selected; after unselecting X no
\* ancestor of X is in all_selected, and the list is the one a walk removing
\* every ancestor of X without looking would leave.
EarlyStopIsFullWalk ==
    /\ (multiselect /\ status = "running") =>
           \A n \in Nodes : ~Sel(all_selected, n) =>
               \A a \in Ancestors(n) : ~Sel(all_selected, a)
    /\ UnmarkedNode =>
           /\ \A a \in Ancestors(X) : ~Sel(BeforeWalk, a) =>
                  \A b \in Ancestors(a) : ~Sel(BeforeWalk, b)
           /\ \A a \in Ancestors(X) : ~Sel(all_selected, a)
           /\ all_selected =
                  SelectSeq(BeforeWalk,
                            LAMBDA i : i \notin { nodeIndex[a] : a \in Ancestors(X) })

\* the walk stopped at the parent of X, below another ancestor
EarlyStopIsFullWalkWitness ==
    /\ UnmarkedNode
    /\ Parent(X) # None /\ ~Sel(prev.all_selected, Parent(X))
    /\ Parent(Parent(X)) # None
    /\ all_selected # <<>>

\* the leaves whose index is in all_selected
SelectedLeaves == { n \in Nodes : children[n] = <<>> /\ Sel(all_selected, n) }

\* C26: in multiselect mode with leaves-only the nodes get_selected returns
\* are exactly the leaves whose index is in all_selected: every entry stands
\* for such a leaf, every such leaf has an entry, and there are as many
\* entries as such leaves.
LeavesReturnedAreSelectedLeaves ==
    (multiselect /\ output_leaves_only /\ status # "AttributeError") =>
        LET result == get_selected
            entries == 1..Len(result.items)
        IN  /\ \A k \in entries : \E n \in SelectedLeaves : Denotes(result.items[k], n)
            /\ \A n \in SelectedLeaves : \E k \in entries : Denotes(result.items[k], n)
            /\ Len(result.items) = Cardinality(SelectedLeaves)

\* returned: the one leaf of a selected inner node, another leaf not selected
LeavesReturnedAreSelectedLeavesWitness ==
    /\ status = "done" /\ multiselect /\ output_leaves_only
    /\ returned = get_selected
    /\ Len(returned.items) = 1 /\ Len(all_selected) = 2
    /\ \E n \in Nodes : children[n] = <<>> /\ ~Sel(all_selected, n)

\* the node the cursor was on, its descendants and its ancestors
Relatives(n) == {n} \cup Descendants(n) \cup Ancestors(n)

\* C27: mark_index with the cursor on X changes the membership in
\* all_selected of no node that is neither X, a descendant of X nor an
\* ancestor of X, and leaves the cursor.
MarkFrame ==
    prev.op = "mark_index" =>
        /\ index = prev.index
        /\ \A n \in Nodes :
               (IF find_by_index(prev.index) = None THEN TRUE ELSE n \notin Relatives(X))
                   => (Sel(all_selected, n) <=> Sel(prev.all_selected, n))

\* a node was unselected while an unrelated node stayed selected
MarkFrameWitness ==
    /\ UnmarkedNode
    /\ \E n \in Nodes : n \notin Relatives(X) /\ Sel(all_selected, n)
    /\ Len(all_selected) < Len(prev.all_selected) - 1

\* C28: in single-select mode all_selected is empty in every state, and
\* neither the select key nor a call of mark_index changes all_selected or
\* the cursor.
SingleSelectKeepsEmpty ==
    /\ [](~multiselect => all_selected = <<>>)
    /\ [][(KeyRead /\ ~multiselect /\ (key' = "select" \/ handled' = "mark")) =>
             (index' = index /\ all_selected' = all_selected)]_vars

\* in a single-select session the select key called mark_index through a handler
SingleSelectKeepsEmptyWitness ==
    /\ ~multiselect /\ status = "running"
    /\ key = "select" /\ handled = "mark"
    /\ index = 1 /\ all_selected = <<>>

\* C29: in multiselect mode, mark_index twice in succession with the cursor
\* on a leaf leaves the set of selected indices as it was.
LeafTwiceRestores ==
    (MarkedTwice /\ multiselect /\ children[X] = <<>>) =>
        ListSet(all_selected) = ListSet(prev2.all_selected)

\* a leaf toggled twice, its ancestors removed and added back in another order
LeafTwiceRestoresWitness ==
    /\ MarkedTwice /\ multiselect /\ children[X] = <<>>
    /\ Cardinality(Ancestors(X)) >= 2
    /\ \A a \in Ancestors(X) : Sel(all_selected, a)
    /\ all_selected # prev2.all_selected

\* the cursor after k times move_up
RECURSIVE Ups(_, _)
Ups(i, k) == IF k = 0 THEN i ELSE Ups(move_up_index(i), k - 1)

\* C30: from every state of a multiselect session, keys lead to a state where
\* enter ends it: the cursor is brought to the root (index times up, or one
\* down from -1), select on the root when it is not selected gives all N
\* indices, and min_selection_count is at most N, the most all_selected holds.
CanAlwaysFinish ==
    (multiselect /\ status = "running") =>
        LET cursor == IF index < 0 THEN move_down_index(index) ELSE Ups(index, index)
            sel == IF InList(all_selected, 0) THEN all_selected
                   ELSE marked(all_selected, cursor)
        IN  /\ cursor = 0
            /\ Len(all_selected) <= N
            /\ Len(sel) = N
            /\ min_selection_count <= Len(sel)

\* a session that needed every index selected has ended
CanAlwaysFinishWitness ==
    /\ status = "done" /\ multiselect
    /\ N >= 2 /\ min_selection_count = N
    /\ Len(returned.items) = N

------------------------------------------------------------------------------
(* C31 *)

\* enter has ended a multiselect session
EnterEnded == status = "done" /\ multiselect /\ key = "enter"

\* C31: whenever enter ends a multiselect session the returned list has at
\* least min_selection_count entries, with leaves-only output and without it.
ReturnedAtLeastMinimum ==
    EnterEnded => Len(returned.items) >= min_selection_count

\* C31 without leaves-only output: whenever enter ends a multiselect session
\* whose output is not leaves-only, the returned list has one entry per index
\* of all_selected, at least min_selection_count of them.
ReturnedAtLeastMinimumAllNodes ==
    (EnterEnded /\ ~output_leaves_only) =>
        /\ Len(returned.items) = Len(all_selected)
        /\ Len(returned.items) >= min_selection_count

\* a session with a minimum of two ended with three entries
ReturnedAtLeastMinimumAllNodesWitness ==
    /\ EnterEnded /\ ~output_leaves_only
    /\ min_selection_count = 2
    /\ Len(returned.items) = 3

====
